---- MODULE Spec2Model ----
(***************************************************************************)
(* A model of glc: a dynamically scoped context.Context for Go.            *)
(*                                                                         *)
(* WithContext(ctx, f) takes a fresh 64-bit id, stores id -> ctx in idmap, *)
(* and runs f below a chain of ten encoder frames (encstart, eight relay   *)
(* functions encXX, encend) that spell the id on the call stack.           *)
(* GetContext captures the calling goroutine's stack, decodes the id of    *)
(* the newest encoder chain and loads it from idmap.                       *)
(*                                                                         *)
(* A call stack is a sequence of frames, oldest first.  A run of n         *)
(* consecutive ordinary (user) frames is kept as one record with count n,  *)
(* so that stacks deeper than the decoder's capture buffer can be          *)
(* represented; every other frame is one record.                           *)
(*                                                                         *)
(* A uint64 is a tuple of eight bytes, least significant first, so that    *)
(* the code's shifts and masks keep their 64-bit width.                    *)
(***************************************************************************)
EXTENDS Integers, Sequences, FiniteSets, TLC

----------------------------------------------------------------------------
(* uint64 arithmetic as used by encstart, fastestlastID and nextID *)

Byte == 0..255

Zero64 == <<0, 0, 0, 0, 0, 0, 0, 0>>

\* id & 0xFF
LowByte(x) == x[1]

\* id >>= 8
Shr8(x) == Tail(x) \o <<0>>

\* value <<= 8 (the most significant byte is shifted out)
Shl8(x) == <<0>> \o SubSeq(x, 1, 7)

RECURSIVE BitOr(_, _)
BitOr(a, b) ==
    IF a = 0 THEN b
    ELSE IF b = 0 THEN a
    ELSE 2 * BitOr(a \div 2, b \div 2) + (IF a % 2 = 1 \/ b % 2 = 1 THEN 1 ELSE 0)

\* value |= uint64(v)
OrByte(x, v) == [x EXCEPT ![1] = BitOr(x[1], v)]

RECURSIVE AddCarry(_, _)
AddCarry(x, i) ==
    IF i > 8 THEN x
    ELSE IF x[i] = 255 THEN AddCarry([x EXCEPT ![i] = 0], i + 1)
    ELSE [x EXCEPT ![i] = x[i] + 1]

\* atomic.AddUint64(&id, 1): the new value, modulo 2^64
AddUint64(x) == AddCarry(x, 1)

\* x < y on uint64
RECURSIVE LessFrom(_, _, _)
LessFrom(x, y, i) ==
    IF i = 0 THEN FALSE
    ELSE IF x[i] # y[i] THEN x[i] < y[i]
    ELSE LessFrom(x, y, i - 1)

Less64(x, y) == LessFrom(x, y, 8)

\* the uint64 of a small natural number
U64(n) == <<n % 256, (n \div 256) % 256, (n \div 65536) % 256, 0, 0, 0, 0, 0>>

----------------------------------------------------------------------------
(* The text layout: entry addresses of the functions that appear on stacks *)

VARIABLE
    build    \* how the build laid out encend: size, the distance from its
             \* entry to the next function's entry, and retoff, the offset
             \* of the return address of its cont() call

\* the build the library's tests run on: the return address of cont() lies
\* inside the decoder's 35-byte window and encend's text fills the window
RefBuild == [size |-> 64, retoff |-> 20]

\* entry address of encend, and the distance to the next function's entry
encendpc == 4096
EncendSize == build.size

\* offset (from encend's entry) of the return address of encend's cont() call
EncendRetOff == build.retoff

\* entry address of encstart, the function laid out after encend
encstartpc == encendpc + EncendSize

\* enc00pc .. encffpc: entry addresses of the 256 relay functions
EncBase == 8192
EncSize == 4096
encpc == [b \in Byte |-> EncBase + b * EncSize]

\* entry addresses of the other functions found on a stack
OtherFuncs ==
    <<"plain", "WithContext", "GetContext", "lastID", "fastestlastID",
      "runtime.Callers", "runtime.gopanic", "deferred", "fasterlastID",
      "fastlastID", "slowlastID">>
OtherBase == 256
OtherSize == 256
OtherEntry(fn) ==
    OtherBase + OtherSize * (CHOOSE k \in 1..Len(OtherFuncs) : OtherFuncs[k] = fn)

\* the entry address of the function a frame is executing
EntryOf(f) ==
    CASE f.fn = "encend" -> encendpc
      [] f.fn = "encstart" -> encstartpc
      [] f.fn = "enc" -> encpc[f.b]
      [] OTHER -> OtherEntry(f.fn)

\* offset (from the function's entry) of the return address of a call made by
\* a function other than encend: it lies past the function's prologue and
\* the call instruction
CallRetOff == 9

\* the program counter runtime.Callers reports for a frame: the return
\* address of the call the frame's function has made
PcOf(f) == EntryOf(f) + (IF f.fn = "encend" THEN EncendRetOff ELSE CallRetOff)

\* runtime.FuncForPC(pc).Entry(): the entry of the function whose text holds pc
FuncEntry(pc) ==
    IF pc >= EncBase /\ pc < EncBase + 256 * EncSize
    THEN EncBase + ((pc - EncBase) \div EncSize) * EncSize
    ELSE IF pc >= encstartpc /\ pc < EncBase THEN encstartpc
    ELSE IF pc >= encendpc /\ pc < encstartpc THEN encendpc
    ELSE (pc \div OtherSize) * OtherSize

----------------------------------------------------------------------------
(* The encoder: encstart, the relay functions encXX, encend *)

\* number of physical frames a stack record stands for
Count(f) == IF f.fn = "plain" THEN f.n ELSE 1

\* encend(cont): its frame; cont runs above it
encend == <<[fn |-> "encend"]>>

\* relay functions that call the next relay before they push their own frame,
\* which leaves the relay of the first byte newest
RECURSIVE encXX_Reversed(_, _)
encXX_Reversed(b, vnext) ==
    IF Len(vnext) = 0 THEN <<[fn |-> "enc", b |-> b]>> \o encend
    ELSE LET r == encXX_Reversed(vnext[1], Tail(vnext))
         IN  SubSeq(r, 1, Len(r) - 1) \o <<[fn |-> "enc", b |-> b]>> \o encend

\* encXX(vnext, cont) for XX = b: the frames from encXX's up to encend's
RECURSIVE encXX(_, _)
encXX(b, vnext) ==
    <<[fn |-> "enc", b |-> b]>>
        \o (IF Len(vnext) = 0 THEN encend ELSE encXX(vnext[1], Tail(vnext)))

\* the loop of encstart: bs[i] = byte(id & 0xFF); id >>= 8
RECURSIVE SplitBytes(_, _)
SplitBytes(id, k) ==
    IF k = 0 THEN <<>> ELSE <<LowByte(id)>> \o SplitBytes(Shr8(id), k - 1)

\* encstart(id, cont): the frames below cont while cont runs, oldest first
encstart(id) ==
    LET bs == SplitBytes(id, 8)
    IN  <<[fn |-> "encstart", bs |-> bs]>> \o encXX(bs[1], Tail(bs))

----------------------------------------------------------------------------
(* The decoder: valForPC, runtime.Callers, fastestlastID, lastID *)

\* var pcs [10000]uintptr
PcsLen == 10000

\* the window of the address pre-check: pc < encendpc+35
EncendWindow == 35

\* a switch whose cases return the byte after the one of their relay function
valtab_Shifted ==
    [pc \in {encpc[b] : b \in Byte} |-> ((CHOOSE b \in Byte : encpc[b] = pc) + 1) % 256]

\* the cases of the switch in valForPC: case encXXpc: return 0xXX, true
valtab == [pc \in {encpc[b] : b \in Byte} |-> CHOOSE b \in Byte : encpc[b] = pc]

\* valForPC(pc): the byte of the relay function entered at pc
valForPC(pc) ==
    IF pc \in DOMAIN valtab THEN [v |-> valtab[pc], ok |-> TRUE]
    ELSE [v |-> 0, ok |-> FALSE]

Min(a, b) == IF a < b THEN a ELSE b

\* the newest `room` physical frames of fr (records, newest first) as pcs
RECURSIVE Capture(_, _, _)
Capture(fr, k, room) ==
    IF k > Len(fr) \/ room = 0 THEN <<>>
    ELSE LET take == Min(Count(fr[k]), room)
         IN  <<[pc |-> PcOf(fr[k]), n |-> take]>> \o Capture(fr, k + 1, room - take)

Reverse(s) == [i \in 1..Len(s) |-> s[Len(s) + 1 - i]]

\* runtime.Callers(0, pcs[:]) called with the physical stack st (oldest first):
\* stack = pcs[:count], newest frame first
Callers(st) == Capture(Reverse(st), 1, PcsLen)

\* an inner loop that returns what it has accumulated when the captured
\* frames end before an encstart frame
RECURSIVE ScanValue_Partial(_, _, _)
ScanValue_Partial(stack, j, value) ==
    IF j > Len(stack) THEN [found |-> TRUE, value |-> value]
    ELSE LET e == FuncEntry(stack[j].pc)
             r == valForPC(e)
         IN  IF e = encstartpc THEN [found |-> TRUE, value |-> value]
             ELSE IF ~r.ok THEN ScanValue_Partial(stack, j + 1, value)
             ELSE ScanValue_Partial(stack, j + 1, OrByte(Shl8(value), r.v))

\* an inner loop that puts each byte above the ones read before it
RECURSIVE ScanValue_Reversed(_, _, _)
ScanValue_Reversed(stack, j, value) ==
    IF j > Len(stack) THEN [found |-> FALSE, value |-> value]
    ELSE LET e == FuncEntry(stack[j].pc)
             r == valForPC(e)
         IN  IF e = encstartpc THEN [found |-> TRUE, value |-> value]
             ELSE IF ~r.ok THEN ScanValue_Reversed(stack, j + 1, value)
             ELSE ScanValue_Reversed(stack, j + 1,
                                     [Shr8(value) EXCEPT ![8] = r.v])

\* the inner loop of fastestlastID: for _, pc := range stack[i:]
RECURSIVE ScanValue(_, _, _)
ScanValue(stack, j, value) ==
    IF j > Len(stack) THEN [found |-> FALSE, value |-> value]
    ELSE LET e == FuncEntry(stack[j].pc)
             r == valForPC(e)
         IN  IF e = encstartpc THEN [found |-> TRUE, value |-> value]
             ELSE IF ~r.ok THEN ScanValue(stack, j + 1, value)
             ELSE ScanValue(stack, j + 1, OrByte(Shl8(value), r.v))

\* the outer loop of fastestlastID: for i, pc := range stack
RECURSIVE ScanEnd(_, _)
ScanEnd(stack, i) ==
    IF i > Len(stack) THEN [id |-> Zero64, ok |-> FALSE, panic |-> FALSE]
    ELSE LET pc == stack[i].pc
         IN  IF pc >= encendpc /\ pc < encendpc + EncendWindow
             THEN IF FuncEntry(pc) = encendpc
                  THEN LET r == ScanValue(stack, i, Zero64)
                       IN  IF r.found
                           THEN [id |-> r.value, ok |-> TRUE, panic |-> FALSE]
                           ELSE ScanEnd(stack, i + 1)
                  ELSE [id |-> Zero64, ok |-> FALSE, panic |-> TRUE]
             ELSE ScanEnd(stack, i + 1)

\* fastestlastID() called by a function whose physical stack is st
fastestlastID(st) ==
    ScanEnd(Callers(st \o <<[fn |-> "fastestlastID"], [fn |-> "runtime.Callers"]>>), 1)

\* lastID() called by a function whose physical stack is st
lastID(st) == fastestlastID(st \o <<[fn |-> "lastID"]>>)

----------------------------------------------------------------------------
(* The other decode variants: fasterlastID, fastlastID, slowlastID *)

NotFound == [id |-> Zero64, ok |-> FALSE, panic |-> FALSE]

\* the outer loop of fasterlastID: every pc is resolved with FuncForPC
RECURSIVE ScanEndFaster(_, _)
ScanEndFaster(stack, i) ==
    IF i > Len(stack) THEN NotFound
    ELSE IF FuncEntry(stack[i].pc) = encendpc
         THEN LET r == ScanValue(stack, i, Zero64)
              IN  IF r.found THEN [id |-> r.value, ok |-> TRUE, panic |-> FALSE]
                  ELSE ScanEndFaster(stack, i + 1)
         ELSE ScanEndFaster(stack, i + 1)

\* fasterlastID() called by a function whose physical stack is st
fasterlastID(st) ==
    ScanEndFaster(Callers(st \o <<[fn |-> "fasterlastID"], [fn |-> "runtime.Callers"]>>), 1)

\* var encmap map[uintptr]byte, as init() fills it: encmap[encXXpc] = 0xXX
encmap == [pc \in {encpc[b] : b \in Byte} |-> CHOOSE b \in Byte : encpc[b] = pc]

\* the inner loop of fastlastID: v, ok := encmap[e]
RECURSIVE ScanValueFast(_, _, _)
ScanValueFast(stack, j, value) ==
    IF j > Len(stack) THEN [found |-> FALSE, value |-> value]
    ELSE LET e == FuncEntry(stack[j].pc)
         IN  IF e = encstartpc THEN [found |-> TRUE, value |-> value]
             ELSE IF e \notin DOMAIN encmap THEN ScanValueFast(stack, j + 1, value)
             ELSE ScanValueFast(stack, j + 1, OrByte(Shl8(value), encmap[e]))

\* the outer loop of fastlastID
RECURSIVE ScanEndFast(_, _)
ScanEndFast(stack, i) ==
    IF i > Len(stack) THEN NotFound
    ELSE IF FuncEntry(stack[i].pc) = encendpc
         THEN LET r == ScanValueFast(stack, i, Zero64)
              IN  IF r.found THEN [id |-> r.value, ok |-> TRUE, panic |-> FALSE]
                  ELSE ScanEndFast(stack, i + 1)
         ELSE ScanEndFast(stack, i + 1)

\* fastlastID() called by a function whose physical stack is st
fastlastID(st) ==
    ScanEndFast(Callers(st \o <<[fn |-> "fastlastID"], [fn |-> "runtime.Callers"]>>), 1)

\* the frames the loops of slowlastID get to see: frames.Next() returns
\* more = false together with the last frame, and the loop condition `more`
\* ends the loop before its body runs for that frame
SlowFrames(stack) ==
    LET n == Len(stack)
    IN  IF n = 0 THEN <<>>
        ELSE IF stack[n].n > 1
        THEN SubSeq(stack, 1, n - 1) \o <<[pc |-> stack[n].pc, n |-> stack[n].n - 1]>>
        ELSE SubSeq(stack, 1, n - 1)

\* the inner loop of slowlastID: it goes on with the frame after encend's on
\* the same iterator, and returns 0, false at the first frame that is
\* neither encstart's nor a relay's
RECURSIVE ScanValueSlow(_, _, _)
ScanValueSlow(frames, j, value) ==
    IF j > Len(frames) THEN NotFound
    ELSE LET e == FuncEntry(frames[j].pc)
         IN  IF e = encstartpc THEN [id |-> value, ok |-> TRUE, panic |-> FALSE]
             ELSE IF e \notin DOMAIN encmap THEN NotFound
             ELSE ScanValueSlow(frames, j + 1, OrByte(Shl8(value), encmap[e]))

\* the outer loop of slowlastID; when the inner loop has used up the
\* iterator the outer loop ends too
RECURSIVE ScanEndSlow(_, _)
ScanEndSlow(frames, i) ==
    IF i > Len(frames) THEN NotFound
    ELSE IF FuncEntry(frames[i].pc) = encendpc
         THEN ScanValueSlow(frames, i + 1, Zero64)
         ELSE ScanEndSlow(frames, i + 1)

\* slowlastID() called by a function whose physical stack is st
slowlastID(st) ==
    ScanEndSlow(
        SlowFrames(Callers(st \o <<[fn |-> "slowlastID"], [fn |-> "runtime.Callers"]>>)), 1)

----------------------------------------------------------------------------
(* The binding store: syncMap[uint64, context.Context] over sync.Map *)

\* the context values bound in the model; "nil" is the nil context.Context
Ctx == {"nil", "A", "B"}

\* syncMap.Store(key, value)
Store(m, key, value) ==
    [k \in DOMAIN m \cup {key} |-> IF k = key THEN value ELSE m[k]]

\* a Delete that empties the store
Delete_All(m, key) == <<>>

\* a Delete that removes nothing
Delete_Keeps(m, key) == m

\* syncMap.Delete(key)
Delete(m, key) == [k \in DOMAIN m \ {key} |-> m[k]]

\* a Load that reports a context for a key that has no entry
Load_Found(m, key) ==
    IF key \notin DOMAIN m THEN [v |-> "A", ok |-> TRUE, panic |-> FALSE]
    ELSE IF m[key] = "nil" THEN [v |-> "nil", ok |-> FALSE, panic |-> TRUE]
    ELSE [v |-> m[key], ok |-> TRUE, panic |-> FALSE]

\* syncMap.Load(key): v, ok := s.m.Load(key); if !ok return the zero value;
\* ret = v.(U), which panics when the stored interface value is nil
Load(m, key) ==
    IF key \notin DOMAIN m THEN [v |-> "nil", ok |-> FALSE, panic |-> FALSE]
    ELSE IF m[key] = "nil" THEN [v |-> "nil", ok |-> FALSE, panic |-> TRUE]
    ELSE [v |-> m[key], ok |-> TRUE, panic |-> FALSE]

----------------------------------------------------------------------------
(* Bounds of the model *)

\* goroutines
NG == 2

\* WithContext calls made in a run (caps the id counter)
MaxId == 2

\* ordinary calls a goroutine has open at once above its newest continuation
MaxCalls == 1

G == 1..NG

\* the goroutine whose ordinary functions also panic, defer and recurse
\* deeply; the others call the library from shallow ordinary functions
Main == CHOOSE g \in G : \A h \in G : g <= h

\* depths of an ordinary call chain: one frame, and the deepest chain under
\* which a continuation's encstart frame is still captured by the decoder
DeepCall == PcsLen - 15
CallDepths == {1, DeepCall, DeepCall + 1}

----------------------------------------------------------------------------
(* The state *)

VARIABLES
    id,      \* var id uint64: the id counter
    idmap,   \* var idmap: the binding store
    stack,   \* per goroutine: its physical call stack, oldest frame first
    mode,    \* per goroutine: "idle" (not started), "run", "panic" (the
             \* runtime is running deferred calls of a panic), "defer" (a
             \* user's deferred function runs during a panic)
    dptr,    \* per goroutine, while panicking: the index in stack of the
             \* newest frame whose deferred calls have not run yet
    op,      \* per goroutine: the GetContext call in progress, if any; in
             \* the encoder tests, what the last lastID call returned
    ret,     \* per goroutine: what the GetContext call that just ended gave
             \* its caller: a context, "panic", or "none" after the caller's
             \* next step
    proc,    \* "up", or "crashed" after a panic no deferred call recovered
    dirty,   \* the map of an RWMutexMap, to compare the binding store with
    paired   \* TRUE while the RWMutexMap has been given exactly the calls made
             \* on idmap

vars == <<id, idmap, stack, mode, dptr, op, ret, proc, build, dirty, paired>>

NoOp == [pc |-> "none"]

\* a run of n ordinary frames; d: the newest has a deferred function that
\* calls GetContext and may recover
Plain(n, d) == [fn |-> "plain", n |-> n, d |-> d]

\* the first function of a goroutine; within records whether the go
\* statement that started it ran inside a WithContext continuation
Base(within) == [fn |-> "plain", n |-> 1, d |-> FALSE, within |-> within]

\* the frame of WithContext(ctx, f) holding its local id; pc is "store"
\* before idmap.Store, "run" while encstart(id, f) runs, "defer" once
\* encstart has returned and the deferred idmap.Delete is due
WCFrame(i, ctx, pc) == [fn |-> "WithContext", id |-> i, ctx |-> ctx, pc |-> pc]

Top(g) == stack[g][Len(stack[g])]

Pop(st, k) == SubSeq(st, 1, Len(st) - k)

\* number of ordinary calls open above the newest continuation (or above the
\* goroutine's first function)
RECURSIVE OpenCalls(_)
OpenCalls(st) ==
    IF Len(st) < 2 \/ st[Len(st) - 1].fn # "plain" THEN 0
    ELSE 1 + OpenCalls(Pop(st, 1))

\* g is running an ordinary function and is inside no GetContext
InUser(g) ==
    /\ proc = "up"
    /\ mode[g] = "run"
    /\ op[g] = NoOp
    /\ Top(g).fn = "plain"

Init ==
    /\ id = Zero64
    /\ idmap = <<>>
    /\ stack = [g \in G |-> IF g = Main THEN <<Base(FALSE)>> ELSE <<>>]
    /\ mode = [g \in G |-> IF g = Main THEN "run" ELSE "idle"]
    /\ dptr = [g \in G |-> 0]
    /\ op = [g \in G |-> NoOp]
    /\ ret = [g \in G |-> "none"]
    /\ proc = "up"
    /\ build = RefBuild
    /\ dirty = <<>>
    /\ paired = TRUE

----------------------------------------------------------------------------
(* WithContext *)

\* a nextID that returns the counter without advancing it
nextID_Stale == id

\* nextID(): atomic.AddUint64(&id, 1)
nextID == AddUint64(id)

\* WithContext(ctx, f), first step: id := nextID()
WithContextCall(g, ctx) ==
    /\ InUser(g)
    /\ Less64(id, U64(MaxId))
    /\ id' = nextID
    /\ stack' = [stack EXCEPT ![g] = @ \o <<WCFrame(nextID, ctx, "store")>>]
    /\ ret' = [ret EXCEPT ![g] = "none"]
    /\ UNCHANGED <<idmap, mode, dptr, op, proc>>
    /\ UNCHANGED <<build, dirty, paired>>

\* a WithContext that stores under the shared counter id, not its own id
WithContextStore_SharedId(g) ==
    /\ proc = "up"
    /\ mode[g] = "run"
    /\ Top(g).fn = "WithContext"
    /\ Top(g).pc = "store"
    /\ idmap' = Store(idmap, id, Top(g).ctx)
    /\ stack' = [stack EXCEPT ![g] =
                    Pop(@, 1) \o <<WCFrame(Top(g).id, Top(g).ctx, "run")>>
                        \o encstart(Top(g).id) \o <<Plain(1, FALSE)>>]
    /\ UNCHANGED <<id, mode, dptr, op, ret, proc>>
    /\ UNCHANGED <<build, dirty, paired>>

\* WithContext, second step: idmap.Store(id, ctx); defer idmap.Delete(id);
\* encstart(id, f) runs the encoder chain and calls f on top of it
WithContextStore(g) ==
    /\ proc = "up"
    /\ mode[g] = "run"
    /\ Top(g).fn = "WithContext"
    /\ Top(g).pc = "store"
    /\ idmap' = Store(idmap, Top(g).id, Top(g).ctx)
    /\ stack' = [stack EXCEPT ![g] =
                    Pop(@, 1) \o <<WCFrame(Top(g).id, Top(g).ctx, "run")>>
                        \o encstart(Top(g).id) \o <<Plain(1, FALSE)>>]
    /\ UNCHANGED <<id, mode, dptr, op, ret, proc>>
    /\ UNCHANGED <<build, dirty, paired>>

\* the stack after its newest ordinary call has returned: a continuation's
\* return also returns encend, the relay functions and encstart, which leaves
\* WithContext at its deferred call
Returned(st) ==
    LET s1 == Pop(st, 1)
    IN  IF s1[Len(s1)].fn = "encend"
        THEN LET s2 == Pop(s1, 10)
                 w  == s2[Len(s2)]
             IN  Pop(s2, 1) \o <<WCFrame(w.id, w.ctx, "defer")>>
        ELSE s1

\* the newest ordinary call of g returns
Return(g) ==
    /\ InUser(g)
    /\ Len(stack[g]) > 1
    /\ stack' = [stack EXCEPT ![g] = Returned(@)]
    /\ ret' = [ret EXCEPT ![g] = "none"]
    /\ UNCHANGED <<id, idmap, mode, dptr, op, proc>>
    /\ UNCHANGED <<build, dirty, paired>>

\* a WithContext that returns without its deferred Delete
WithContextDelete_Leaks(g) ==
    /\ proc = "up"
    /\ mode[g] = "run"
    /\ Top(g).fn = "WithContext"
    /\ Top(g).pc = "defer"
    /\ stack' = [stack EXCEPT ![g] = Pop(@, 1)]
    /\ UNCHANGED <<id, idmap, mode, dptr, op, ret, proc>>
    /\ UNCHANGED <<build, dirty, paired>>

\* WithContext, last step on a normal return: the deferred idmap.Delete(id)
WithContextDelete(g) ==
    /\ proc = "up"
    /\ mode[g] = "run"
    /\ Top(g).fn = "WithContext"
    /\ Top(g).pc = "defer"
    /\ idmap' = Delete(idmap, Top(g).id)
    /\ stack' = [stack EXCEPT ![g] = Pop(@, 1)]
    /\ UNCHANGED <<id, mode, dptr, op, ret, proc>>
    /\ UNCHANGED <<build, dirty, paired>>

----------------------------------------------------------------------------
(* Ordinary code around the library: calls, goroutines, panics *)

\* g calls a chain of n ordinary functions (stackit(n-1, f) of the tests);
\* with d the function defers a function that calls GetContext
Call(g, n, d) ==
    /\ InUser(g)
    /\ OpenCalls(stack[g]) < MaxCalls
    /\ d => n = 1
    /\ (d \/ n > 1) => g = Main
    /\ stack' = [stack EXCEPT ![g] = @ \o <<Plain(n, d)>>]
    /\ ret' = [ret EXCEPT ![g] = "none"]
    /\ UNCHANGED <<id, idmap, mode, dptr, op, proc>>
    /\ UNCHANGED <<build, dirty, paired>>

\* the function running on top of st is, or was called from, the continuation
\* of a WithContext call
InScope(st) == \E i \in 1..Len(st) : st[i].fn = "WithContext" /\ st[i].pc = "run"

\* p starts goroutine c with the go statement: c begins on a stack of its own
Go(p, c) ==
    /\ InUser(p)
    /\ mode[c] = "idle"
    /\ mode' = [mode EXCEPT ![c] = "run"]
    /\ stack' = [stack EXCEPT ![c] = <<Base(InScope(stack[p]))>>]
    /\ ret' = [ret EXCEPT ![p] = "none"]
    /\ UNCHANGED <<id, idmap, dptr, op, proc>>
    /\ UNCHANGED <<build, dirty, paired>>

\* the ordinary function g is running panics: the runtime starts running
\* deferred calls, newest first, with every frame still on the stack
Panic(g) ==
    /\ InUser(g)
    /\ g = Main
    /\ mode' = [mode EXCEPT ![g] = "panic"]
    /\ dptr' = [dptr EXCEPT ![g] = Len(stack[g])]
    /\ ret' = [ret EXCEPT ![g] = "none"]
    /\ UNCHANGED <<id, idmap, stack, op, proc>>
    /\ UNCHANGED <<build, dirty, paired>>

\* the frame has a deferred call that has not run
HasDefer(f) ==
    \/ f.fn = "plain" /\ f.d
    \/ f.fn = "WithContext" /\ f.pc = "run"

\* the newest frame of st at or below index k with a deferred call, or 0
RECURSIVE NextDefer(_, _)
NextDefer(st, k) ==
    IF k = 0 THEN 0
    ELSE IF HasDefer(st[k]) THEN k
    ELSE NextDefer(st, k - 1)

\* the runtime runs the next deferred call of a panicking goroutine:
\* WithContext's idmap.Delete(id), or a user's deferred function, which runs
\* on top of the panicking frames; with none left the program crashes
Unwind(g) ==
    /\ proc = "up"
    /\ mode[g] = "panic"
    /\ LET k == NextDefer(stack[g], dptr[g])
       IN  \/ /\ k = 0
              /\ proc' = "crashed"
              /\ UNCHANGED <<idmap, stack, mode, dptr>>
           \/ /\ k > 0
              /\ stack[g][k].fn = "WithContext"
              /\ idmap' = Delete(idmap, stack[g][k].id)
              /\ dptr' = [dptr EXCEPT ![g] = k - 1]
              /\ UNCHANGED <<stack, mode, proc>>
           \/ /\ k > 0
              /\ stack[g][k].fn = "plain"
              /\ stack' = [stack EXCEPT ![g] =
                              @ \o <<[fn |-> "runtime.gopanic"], [fn |-> "deferred"]>>]
              /\ mode' = [mode EXCEPT ![g] = "defer"]
              /\ dptr' = [dptr EXCEPT ![g] = k]
              /\ UNCHANGED <<idmap, proc>>
    /\ ret' = [ret EXCEPT ![g] = "none"]
    /\ UNCHANGED <<id, op>>
    /\ UNCHANGED <<build, dirty, paired>>

\* a user's deferred function returns.  If it called recover() the panic ends
\* and the function that deferred it returns to its caller; otherwise the
\* runtime goes on with the older deferred calls
DeferredReturn(g, rec) ==
    /\ proc = "up"
    /\ mode[g] = "defer"
    /\ op[g] = NoOp
    /\ IF rec
       THEN /\ stack' = [stack EXCEPT ![g] = Returned(SubSeq(@, 1, dptr[g]))]
            /\ mode' = [mode EXCEPT ![g] = "run"]
            /\ dptr' = [dptr EXCEPT ![g] = 0]
       ELSE /\ stack' = [stack EXCEPT ![g] = Pop(@, 2)]
            /\ mode' = [mode EXCEPT ![g] = "panic"]
            /\ dptr' = [dptr EXCEPT ![g] = @ - 1]
    /\ ret' = [ret EXCEPT ![g] = "none"]
    /\ UNCHANGED <<id, idmap, op, proc>>
    /\ UNCHANGED <<build, dirty, paired>>

----------------------------------------------------------------------------
(* GetContext *)

\* GetContext panics: in an ordinary function the goroutine starts
\* panicking; in a deferred function that function is abandoned
PanicInGet(g) ==
    /\ ret' = [ret EXCEPT ![g] = "panic"]
    /\ op' = [op EXCEPT ![g] = NoOp]
    /\ mode' = [mode EXCEPT ![g] = "panic"]
    /\ IF mode[g] = "run"
       THEN /\ dptr' = [dptr EXCEPT ![g] = Len(stack[g])]
            /\ UNCHANGED stack
       ELSE /\ dptr' = [dptr EXCEPT ![g] = @ - 1]
            /\ stack' = [stack EXCEPT ![g] = Pop(@, 2)]

\* a GetContext that looks up the shared counter id, not the decoded id
GetContextCall_SharedId(g) ==
    /\ proc = "up"
    /\ mode[g] \in {"run", "defer"}
    /\ op[g] = NoOp
    /\ Top(g).fn \in {"plain", "deferred"}
    /\ op' = [op EXCEPT ![g] = [pc |-> "load", id |-> id]]
    /\ ret' = [ret EXCEPT ![g] = "none"]
    /\ UNCHANGED <<id, idmap, stack, mode, dptr, proc>>
    /\ UNCHANGED <<build, dirty, paired>>

\* GetContext(), first step: id, ok := lastID(); if !ok return nil
GetContextCall(g) ==
    /\ proc = "up"
    /\ mode[g] \in {"run", "defer"}
    /\ op[g] = NoOp
    /\ Top(g).fn \in {"plain", "deferred"}
    /\ LET r == lastID(stack[g] \o <<[fn |-> "GetContext"]>>)
       IN  IF r.panic THEN PanicInGet(g)
           ELSE /\ IF r.ok
                   THEN /\ op' = [op EXCEPT ![g] = [pc |-> "load", id |-> r.id]]
                        /\ ret' = [ret EXCEPT ![g] = "none"]
                   ELSE /\ ret' = [ret EXCEPT ![g] = "nil"]
                        /\ UNCHANGED op
                /\ UNCHANGED <<stack, mode, dptr>>
    /\ UNCHANGED <<id, idmap, proc>>
    /\ UNCHANGED <<build, dirty, paired>>

\* GetContext(), second step: ctx, ok := idmap.Load(id); if !ok return nil;
\* return ctx
GetContextLoad(g) ==
    /\ proc = "up"
    /\ op[g].pc = "load"
    /\ LET l == Load(idmap, op[g].id)
       IN  IF l.panic THEN PanicInGet(g)
           ELSE /\ ret' = [ret EXCEPT ![g] = IF l.ok THEN l.v ELSE "nil"]
                /\ op' = [op EXCEPT ![g] = NoOp]
                /\ UNCHANGED <<stack, mode, dptr>>
    /\ UNCHANGED <<id, idmap, proc>>
    /\ UNCHANGED <<build, dirty, paired>>

----------------------------------------------------------------------------

Next ==
    \/ \E g \in G, ctx \in Ctx : WithContextCall(g, ctx)
    \/ \E g \in G : WithContextStore(g)
    \/ \E g \in G : Return(g)
    \/ \E g \in G : WithContextDelete(g)
    \/ \E g \in G, n \in CallDepths, d \in BOOLEAN : Call(g, n, d)
    \/ \E p \in G, c \in G : Go(p, c)
    \/ \E g \in G : Panic(g)
    \/ \E g \in G : Unwind(g)
    \/ \E g \in G, rec \in BOOLEAN : DeferredReturn(g, rec)
    \/ \E g \in G : GetContextCall(g)
    \/ \E g \in G : GetContextLoad(g)

Spec == Init /\ [][Next]_vars

----------------------------------------------------------------------------
(* The encoder tests: encstart and lastID called directly, as TestEncstart
   does, with no WithContext around them *)

\* encstart calls open at once in the encoder tests
MaxEnc == 1

\* the ids the tests encode: 0, 0x00112233 of TestEncstart, ids with zero
\* and repeated bytes, and the largest id
TestIds ==
    { Zero64,
      <<51, 34, 17, 0, 0, 0, 0, 0>>,
      <<255, 0, 0, 0, 0, 0, 0, 0>>,
      <<0, 0, 0, 0, 0, 0, 0, 1>>,
      <<1, 1, 1, 1, 1, 1, 1, 1>>,
      <<0, 255, 0, 255, 0, 255, 0, 255>>,
      <<239, 205, 171, 137, 103, 69, 35, 1>>,
      <<255, 255, 255, 255, 255, 255, 255, 255>> }

InTest(g) ==
    /\ g = Main
    /\ proc = "up"
    /\ mode[g] = "run"
    /\ Top(g).fn = "plain"

EncOpen(st) == Cardinality({i \in 1..Len(st) : st[i].fn = "encstart"})

\* encstart(x, k): k runs on top of the encoder chain; op[g] keeps the
\* argument x until the next step of the test
TestEncstart(g, x) ==
    /\ InTest(g)
    /\ EncOpen(stack[g]) < MaxEnc
    /\ stack' = [stack EXCEPT ![g] = @ \o encstart(x) \o <<Plain(1, FALSE)>>]
    /\ op' = [op EXCEPT ![g] = [pc |-> "encoded", id |-> x]]
    /\ UNCHANGED <<id, idmap, mode, dptr, ret, proc>>
    /\ UNCHANGED <<build, dirty, paired>>

\* id, ok := lastID()
TestLastID(g) ==
    /\ InTest(g)
    /\ LET r == lastID(stack[g])
       IN  op' = [op EXCEPT ![g] = [pc |-> "decoded", id |-> r.id, ok |-> r.ok,
                                    panic |-> r.panic]]
    /\ UNCHANGED <<id, idmap, stack, mode, dptr, ret, proc>>
    /\ UNCHANGED <<build, dirty, paired>>

\* a chain of n ordinary calls
TestCall(g, n) ==
    /\ InTest(g)
    /\ OpenCalls(stack[g]) < MaxCalls
    /\ stack' = [stack EXCEPT ![g] = @ \o <<Plain(n, FALSE)>>]
    /\ op' = [op EXCEPT ![g] = NoOp]
    /\ UNCHANGED <<id, idmap, mode, dptr, ret, proc>>
    /\ UNCHANGED <<build, dirty, paired>>

\* the newest ordinary call returns; a continuation's return also returns
\* encend, the relay functions and encstart
TestReturn(g) ==
    /\ InTest(g)
    /\ Len(stack[g]) > 1
    /\ stack' = [stack EXCEPT ![g] =
                    IF @[Len(@) - 1].fn = "encend" THEN Pop(@, 11) ELSE Pop(@, 1)]
    /\ op' = [op EXCEPT ![g] = NoOp]
    /\ UNCHANGED <<id, idmap, mode, dptr, ret, proc>>
    /\ UNCHANGED <<build, dirty, paired>>

NextEnc ==
    \/ \E g \in G, x \in TestIds : TestEncstart(g, x)
    \/ \E g \in G : TestLastID(g)
    \/ \E g \in G, n \in CallDepths : TestCall(g, n)
    \/ \E g \in G : TestReturn(g)

SpecEnc == Init /\ [][NextEnc]_vars

----------------------------------------------------------------------------
(* The decoder tests: the decode variants applied to the stacks of a test
   function, under the layouts a build can give encend *)

\* layouts of encend: the reference build; one whose return address lies
\* past the 35-byte window; one in which encend is shorter than the window,
\* so that the window reaches into the first bytes of encstart, the function
\* laid out after it
Builds ==
    {RefBuild, [size |-> 64, retoff |-> 40], [size |-> 32, retoff |-> 20]}

\* numbers of relay functions in a chain the test function starts by calling
\* a relay function directly
RelayCounts == {1, 7, 8, 9}

\* the ids whose bytes the relay frames under test spell
DecIds == {<<239, 205, 171, 137, 103, 69, 35, 1>>, <<51, 34, 17, 0, 0, 0, 0, 0>>}

\* the id of the complete chain below the chain under test
OuterId == <<7, 0, 0, 0, 0, 0, 0, 1>>

\* depths of the test function's call chain: one frame; the depth that leaves
\* the encstart frame of an outer chain with an encend called on top of it
\* the oldest captured frame; the depth that does so for a single chain; and
\* the depth that leaves that one just outside the capture buffer
DecDepths == {1, DeepCall, PcsLen - 13, PcsLen - 12}

\* the encoder frames a function of the package can put below a continuation
\* with one call: none; encstart(x, k); encend(k); encXX(vnext, k) with the
\* first bytes of x, x, ... as XX and vnext
Chains ==
    {<<>>, encend}
        \cup {encstart(x) : x \in DecIds}
        \cup {encXX(x[1], SubSeq(x \o x, 2, n)) : x \in DecIds, n \in RelayCounts}

\* the stack of a test function that runs `above` frames deep as the
\* continuation of chain, called from the test or (outer) from the
\* continuation of encstart(OuterId, ...)
TestStack(outer, chain, above) ==
    <<Base(FALSE)>>
        \o (IF outer THEN encstart(OuterId) \o <<Plain(1, FALSE)>> ELSE <<>>)
        \o chain
        \o <<Plain(above, FALSE)>>

InitDec ==
    /\ id = Zero64
    /\ idmap = <<>>
    /\ build \in Builds
    /\ \E outer \in BOOLEAN, chain \in Chains, above \in DecDepths :
           stack = [g \in G |-> IF g = Main
                                THEN TestStack(outer, chain, above)
                                ELSE <<>>]
    /\ mode = [g \in G |-> IF g = Main THEN "run" ELSE "idle"]
    /\ dptr = [g \in G |-> 0]
    /\ op = [g \in G |-> NoOp]
    /\ ret = [g \in G |-> "none"]
    /\ proc = "up"
    /\ dirty = <<>>
    /\ paired = TRUE

\* index of the newest frame of function fn at or below index k of st, or 0
RECURSIVE NewestAt(_, _, _)
NewestAt(st, fn, k) ==
    IF k = 0 THEN 0
    ELSE IF st[k].fn = fn THEN k
    ELSE NewestAt(st, fn, k - 1)

\* index of the newest encend frame of st, and of the newest encstart frame
\* older than it
EndAt(st) == NewestAt(st, "encend", Len(st))
StartAt(st) == IF EndAt(st) = 0 THEN 0 ELSE NewestAt(st, "encstart", EndAt(st) - 1)

\* the body of lastID with each of the four variants in the place of its
\* return statement, called by the test function
DecodeVariants(g) ==
    /\ InTest(g)
    /\ LET st == stack[g] \o <<[fn |-> "lastID"]>>
       IN  op' = [op EXCEPT ![g] = [pc |-> "variants",
                                    slow |-> slowlastID(st),
                                    fast |-> fastlastID(st),
                                    faster |-> fasterlastID(st),
                                    fastest |-> fastestlastID(st)]]
    /\ UNCHANGED <<id, idmap, stack, mode, dptr, ret, proc, build, dirty, paired>>

\* groups of ordinary frames interposed in a run
MaxInsert == 1

\* the groups of ordinary frames of st that lie directly above an ordinary
\* frame, between the newest encend frame and the encstart frame below that
Interposed(st) ==
    Cardinality({i \in (StartAt(st) + 1)..EndAt(st) :
                     st[i].fn = "plain" /\ st[i - 1].fn = "plain"})

\* the ordinary function at index k - 1, a continuation that lies between
\* the frames of encstart and of the newest encend, makes its call through n
\* more ordinary frames (in the manner of stackit); op[g] keeps what lastID
\* returns without and with them
Interpose(g, k, n) ==
    /\ InTest(g)
    /\ StartAt(stack[g]) > 0
    /\ Interposed(stack[g]) < MaxInsert
    /\ k \in (StartAt(stack[g]) + 1)..EndAt(stack[g])
    /\ stack[g][k - 1].fn = "plain"
    /\ stack' = [stack EXCEPT ![g] =
                    SubSeq(@, 1, k - 1) \o <<Plain(n, FALSE)>> \o SubSeq(@, k, Len(@))]
    /\ op' = [op EXCEPT ![g] = [pc |-> "interposed", k |-> k,
                                before |-> lastID(stack[g]),
                                after |-> lastID(stack'[g])]]
    /\ UNCHANGED <<id, idmap, mode, dptr, ret, proc, build, dirty, paired>>

NextDec ==
    \/ \E g \in G : DecodeVariants(g)
    \/ \E g \in G : TestLastID(g)
    \/ \E g \in G, k \in 2..30, n \in 1..2 : Interpose(g, k, n)

SpecDec == InitDec /\ [][NextDec]_vars

----------------------------------------------------------------------------
(* The address index: valForPC and encmap looked up at the addresses that
   can reach them *)

\* the addresses looked up: the entry of every relay function, the entries
\* of encstart, encend and the other functions, addresses inside functions,
\* and 0
IndexAddrs ==
    {EntryOf([fn |-> "enc", b |-> b]) : b \in Byte}
        \cup {PcOf([fn |-> "enc", b |-> b]) : b \in {0, 1, 255}}
        \cup {encstartpc, encendpc, PcOf([fn |-> "encend"]), PcOf([fn |-> "encstart"]), 0}
        \cup {OtherEntry(OtherFuncs[k]) : k \in 1..Len(OtherFuncs)}

\* v, ok := valForPC(a) and v, ok := encmap[a]; op[g] keeps both results
LookUp(g, a) ==
    /\ InTest(g)
    /\ op' = [op EXCEPT ![g] =
                 [pc |-> "looked", addr |-> a,
                  val |-> valForPC(a),
                  inmap |-> IF a \in DOMAIN encmap
                            THEN [v |-> encmap[a], ok |-> TRUE]
                            ELSE [v |-> 0, ok |-> FALSE]]]
    /\ UNCHANGED <<id, idmap, stack, mode, dptr, ret, proc, build, dirty, paired>>

NextIndex == \E g \in G, a \in IndexAddrs : LookUp(g, a)

SpecIndex == Init /\ [][NextIndex]_vars

----------------------------------------------------------------------------
(* The binding store against a mutex-guarded map: calls of Store, Load and
   Delete made on idmap, each repeated on an RWMutexMap, and the calls only
   the RWMutexMap takes *)

\* keys used in the calls
MaxKey == 3
MapKeys == {U64(k) : k \in 1..MaxKey}

\* RWMutexMap.Store: m.dirty[key] = value
RWMutexMapStore(m, key, value) ==
    [k \in DOMAIN m \cup {key} |-> IF k = key THEN value ELSE m[k]]

\* RWMutexMap.Load: value, ok = m.dirty[key]
RWMutexMapLoad(m, key) ==
    IF key \in DOMAIN m THEN [v |-> m[key], ok |-> TRUE, panic |-> FALSE]
    ELSE [v |-> "nil", ok |-> FALSE, panic |-> FALSE]

\* RWMutexMap.Delete: delete(m.dirty, key)
RWMutexMapDelete(m, key) == [k \in DOMAIN m \ {key} |-> m[k]]

\* RWMutexMap.LoadOrStore: the value of key and TRUE if the map holds one,
\* otherwise value is stored and returned with FALSE
RWMutexMapLoadOrStore(m, key, value) ==
    IF key \in DOMAIN m
    THEN [m |-> m, actual |-> m[key], loaded |-> TRUE]
    ELSE [m |-> [k \in DOMAIN m \cup {key} |-> IF k = key THEN value ELSE m[k]],
          actual |-> value, loaded |-> FALSE]

\* RWMutexMap.LoadAndDelete: the value of key, removed from the map, and TRUE
\* if the map holds one, otherwise the zero value and FALSE
RWMutexMapLoadAndDelete(m, key) ==
    IF key \in DOMAIN m
    THEN [m |-> [k \in DOMAIN m \ {key} |-> m[k]], value |-> m[key], loaded |-> TRUE]
    ELSE [m |-> m, value |-> "nil", loaded |-> FALSE]

\* idmap.Store(k, v), with any context WithContext can be given, and the same
\* call on the RWMutexMap
StoreCall(g, k, v) ==
    /\ g = Main
    /\ proc = "up"
    /\ idmap' = Store(idmap, k, v)
    /\ dirty' = RWMutexMapStore(dirty, k, v)
    /\ op' = [op EXCEPT ![g] = [pc |-> "Store", k |-> k]]
    /\ UNCHANGED <<id, stack, mode, dptr, ret, proc, build, paired>>

\* idmap.Delete(k), and the same call on the RWMutexMap
DeleteCall(g, k) ==
    /\ g = Main
    /\ proc = "up"
    /\ idmap' = Delete(idmap, k)
    /\ dirty' = RWMutexMapDelete(dirty, k)
    /\ op' = [op EXCEPT ![g] = [pc |-> "Delete", k |-> k]]
    /\ UNCHANGED <<id, stack, mode, dptr, ret, proc, build, paired>>

\* ctx, ok := idmap.Load(k), and the same call on the RWMutexMap; op[g] keeps
\* both results.  A panic in Load ends the program
LoadCall(g, k) ==
    /\ g = Main
    /\ proc = "up"
    /\ op' = [op EXCEPT ![g] = [pc |-> "Load", k |-> k,
                                got |-> Load(idmap, k),
                                want |-> RWMutexMapLoad(dirty, k)]]
    /\ proc' = IF Load(idmap, k).panic THEN "crashed" ELSE "up"
    /\ UNCHANGED <<id, idmap, stack, mode, dptr, ret, build, dirty, paired>>

\* m.LoadOrStore(k, v) on the RWMutexMap.  syncMap has no such method: no call
\* is made on idmap, and the two maps have no longer been given the same calls
LoadOrStoreCall(g, k, v) ==
    /\ g = Main
    /\ proc = "up"
    /\ dirty' = RWMutexMapLoadOrStore(dirty, k, v).m
    /\ paired' = FALSE
    /\ op' = [op EXCEPT ![g] = [pc |-> "LoadOrStore", k |-> k,
                                actual |-> RWMutexMapLoadOrStore(dirty, k, v).actual,
                                loaded |-> RWMutexMapLoadOrStore(dirty, k, v).loaded]]
    /\ UNCHANGED <<id, idmap, stack, mode, dptr, ret, proc, build>>

\* m.LoadAndDelete(k) on the RWMutexMap; syncMap has no such method either
LoadAndDeleteCall(g, k) ==
    /\ g = Main
    /\ proc = "up"
    /\ dirty' = RWMutexMapLoadAndDelete(dirty, k).m
    /\ paired' = FALSE
    /\ op' = [op EXCEPT ![g] = [pc |-> "LoadAndDelete", k |-> k,
                                value |-> RWMutexMapLoadAndDelete(dirty, k).value,
                                loaded |-> RWMutexMapLoadAndDelete(dirty, k).loaded]]
    /\ UNCHANGED <<id, idmap, stack, mode, dptr, ret, proc, build>>

NextMap ==
    \/ \E g \in G, k \in MapKeys, v \in Ctx : StoreCall(g, k, v)
    \/ \E g \in G, k \in MapKeys : DeleteCall(g, k)
    \/ \E g \in G, k \in MapKeys : LoadCall(g, k)
    \/ \E g \in G, k \in MapKeys, v \in Ctx : LoadOrStoreCall(g, k, v)
    \/ \E g \in G, k \in MapKeys : LoadAndDeleteCall(g, k)

SpecMap == Init /\ [][NextMap]_vars

----------------------------------------------------------------------------
(* Scopes *)

\* the frames of g that have not been unwound by a panic
Live(g) ==
    IF mode[g] \in {"panic", "defer"} THEN SubSeq(stack[g], 1, dptr[g]) ELSE stack[g]

\* the WithContext calls of g in progress, as indexes into its stack
InProgress(g) == {i \in 1..Len(Live(g)) : stack[g][i].fn = "WithContext"}

\* the WithContext calls of g whose continuation is executing: encstart has
\* been called and the continuation's frame, eleven frames up, is live
Active(g) ==
    {i \in InProgress(g) : stack[g][i].pc = "run" /\ i + 11 <= Len(Live(g))}

Max(S) == CHOOSE x \in S : \A y \in S : y <= x

\* the frame of the innermost active WithContext of g
Innermost(g) == stack[g][Max(Active(g))]

\* a GetContext call of g has just ended, and it was made by an ordinary
\* function (not by a deferred function run by a panic)
EndedInRun(g) ==
    /\ ret[g] # "none"
    /\ \/ mode[g] = "run"
       \/ mode[g] = "panic" /\ dptr[g] = Len(stack[g])

\* the number of ordinary frames above the newest encend frame of a stack
RECURSIVE FramesAbove(_)
FramesAbove(st) ==
    IF Len(st) = 0 \/ st[Len(st)].fn # "plain" THEN 0
    ELSE Count(st[Len(st)]) + FramesAbove(Pop(st, 1))

Started == {g \in G : mode[g] # "idle"}

----------------------------------------------------------------------------
(* Claims *)

\* C1: a GetContext call made by ordinary code while a WithContext(v, f)
\* continuation is executing on the goroutine, with no more deeply nested
\* WithContext active, returns v.
C1_GetReturnsBound ==
    \A g \in G :
        (EndedInRun(g) /\ Active(g) # {}) => ret[g] = Innermost(g).ctx

\* C2: nested scopes on one goroutine are a stack: with two or more scopes
\* active GetContext returns the innermost scope's value, and after an inner
\* scope has returned GetContext returns the enclosing scope's value again.
\* (With one goroutine started, an id counter above the innermost active id
\* means that an inner scope of it was opened and has exited.)
C2_NestedStack ==
    \A g \in G :
        (/\ Started = {g}
         /\ ret[g] # "none"
         /\ mode[g] = "run"
         /\ Active(g) # {}
         /\ \/ Cardinality(Active(g)) >= 2
            \/ Less64(Innermost(g).id, id))
        => ret[g] = Innermost(g).ctx

\* C3: GetContext returns nil whenever no WithContext continuation is active
\* on the calling goroutine.
C3_NilOutsideScope ==
    \A g \in G : (ret[g] # "none" /\ Active(g) = {}) => ret[g] = "nil"

\* the only goroutine started has run a WithContext call to its end and then
\* got nil from GetContext
C3_Witness ==
    /\ Started = {Main}
    /\ id = U64(1)
    /\ InProgress(Main) = {}
    /\ mode[Main] = "run"
    /\ ret[Main] = "nil"

\* C4: idmap holds entries only for WithContext calls that are in progress;
\* after a call has exited, by return or by panic, its id has no entry.
C4_NoEntryAfterExit ==
    DOMAIN idmap \subseteq UNION {{stack[g][i].id : i \in InProgress(g)} : g \in G}

\* a WithContext has exited by panic (its frames are still on the stack below
\* a deferred function), another has returned, and idmap is empty
C4_Witness ==
    /\ proc = "up"
    /\ mode[1] = "defer"
    /\ \E i \in 1..Len(stack[1]) :
           /\ i > dptr[1]
           /\ stack[1][i].fn = "WithContext"
    /\ InProgress(1) = {}
    /\ id = U64(2)
    /\ idmap = <<>>

\* C5: with several goroutines running, each GetContext returns the value of
\* the innermost scope active on the calling goroutine (nil with none), and
\* never a value bound by another goroutine.
C5_PerGoroutine ==
    \A g \in G :
        (EndedInRun(g) /\ Cardinality(Started) >= 2)
        => ret[g] = (IF Active(g) = {} THEN "nil" ELSE Innermost(g).ctx)

\* C6: a goroutine started with go from inside a WithContext continuation
\* does not inherit the binding: outside any WithContext of its own its
\* GetContext returns nil, also while the scope it was started in is active.
C6_NotInherited ==
    \A c \in G :
        (/\ mode[c] # "idle"
         /\ stack[c][1].within
         /\ ret[c] # "none"
         /\ Active(c) = {})
        => ret[c] = "nil"

\* a goroutine started inside the only scope opened so far, which is still
\* active, has called GetContext and got nil
C6_Witness ==
    \E c \in G \ {Main} :
        /\ mode[c] = "run"
        /\ stack[c][1].within
        /\ ret[c] = "nil"
        /\ Active(c) = {}
        /\ id = U64(1)
        /\ Active(Main) # {}
        /\ Innermost(Main).ctx = "A"

\* C8: while the continuation of a WithContext(ctx, f) call is executing,
\* idmap maps that call's id to ctx.
C8_EntryWhileActive ==
    \A g \in G : \A i \in Active(g) :
        /\ stack[g][i].id \in DOMAIN idmap
        /\ idmap[stack[g][i].id] = stack[g][i].ctx

C8_Witness ==
    /\ Cardinality(Active(1)) = 2
    /\ mode[1] = "run"
    /\ Cardinality(DOMAIN idmap) = 2
    /\ Innermost(1).ctx = "nil"

\* C9: the ids handed out by nextID are distinct and increasing: the
\* WithContext calls in progress hold pairwise distinct ids, none above the
\* counter, and on one goroutine a newer call holds a larger id.
C9_DistinctIds ==
    \A g \in G : \A i \in InProgress(g) :
        /\ ~Less64(id, stack[g][i].id)
        /\ stack[g][i].id # Zero64
        /\ \A h \in G : \A j \in InProgress(h) :
               /\ (g # h \/ i # j) => stack[g][i].id # stack[h][j].id
               /\ (g = h /\ i < j) => Less64(stack[g][i].id, stack[h][j].id)

C9_Witness ==
    /\ \E g \in G, h \in G : g # h /\ Active(g) # {} /\ Active(h) # {}
    /\ id = U64(2)

\* C10: GetContext finds the enclosing binding whatever the number of
\* ordinary frames between the continuation and the call, also when it is
\* larger than the decoder's capture buffer.
C10_AnyDepth ==
    \A g \in G :
        (/\ EndedInRun(g)
         /\ Active(g) # {}
         /\ Innermost(g).ctx # "nil")
        => ret[g] = Innermost(g).ctx

\* the bytes of the id given to the newest encstart call on a stack
RECURSIVE NewestEncoded(_)
NewestEncoded(st) ==
    IF st[Len(st)].fn = "encstart" THEN st[Len(st)].bs ELSE NewestEncoded(Pop(st, 1))

\* g is executing the continuation of an encstart call: its newest frame is
\* the one encend called
InContinuation(g) ==
    /\ Len(stack[g]) > 1
    /\ Top(g) = Plain(1, FALSE)
    /\ stack[g][Len(stack[g]) - 1].fn = "encend"

\* C7: lastID called by the continuation k of encstart(id, k) returns
\* (id, true), for every id.
C7_RoundTrip ==
    \A g \in G :
        (op[g].pc = "decoded" /\ InContinuation(g))
        => /\ op[g].ok
           /\ ~op[g].panic
           /\ op[g].id = NewestEncoded(stack[g])

\* the round trip of 0x0123456789abcdef
C7_Witness ==
    /\ op[1].pc = "decoded"
    /\ InContinuation(1)
    /\ op[1].ok
    /\ op[1].id = <<239, 205, 171, 137, 103, 69, 35, 1>>

\* C11: every Load of the binding store returns what the mutex-guarded map
\* run through the same calls returns: the value of the latest Store to the
\* key not followed by a Delete of it, or not-found.
C11_LoadMatchesMap ==
    \A g \in G :
        (op[g].pc = "Load" /\ paired) => op[g].got = op[g].want

\* C12: while the continuation of encstart(id, cont) executes, the frames the
\* encoder added are, newest to oldest: one encend frame, eight relay frames
\* (the newest for the most significant byte of id, the oldest for the least
\* significant), then the encstart frame: ten frames for every id.
C12_EncoderFrames ==
    \A g \in G :
        op[g].pc = "encoded"
        => LET n == Len(stack[g])
           IN  /\ n >= 12
               /\ stack[g][n].fn = "plain"
               /\ stack[g][n - 1].fn = "encend"
               /\ \A k \in 1..8 :
                      /\ stack[g][n - 1 - k].fn = "enc"
                      /\ stack[g][n - 1 - k].b = op[g].id[9 - k]
               /\ stack[g][n - 10].fn = "encstart"
               /\ stack[g][n - 11].fn = "plain"

\* the continuation of encstart(0x0123456789abcdef, cont) runs above a chain
\* whose newest relay is enc01 and whose oldest is encef
C12_Witness ==
    /\ op[1] = [pc |-> "encoded", id |-> <<239, 205, 171, 137, 103, 69, 35, 1>>]
    /\ InContinuation(1)
    /\ stack[1][Len(stack[1]) - 2] = [fn |-> "enc", b |-> 1]
    /\ stack[1][Len(stack[1]) - 9] = [fn |-> "enc", b |-> 239]

\* C13: a deferred function of the outer continuation that runs because an
\* inner WithContext exited by panic (the inner binding is already deleted)
\* gets the outer scope's ctx from GetContext.
C13_DeferredSeesOuter ==
    \A g \in G :
        (/\ mode[g] = "defer"
         /\ ret[g] # "none"
         /\ Active(g) # {}
         /\ Innermost(g).ctx # "nil"
         /\ \E i \in (dptr[g] + 1)..Len(stack[g]) :
                /\ stack[g][i].fn = "WithContext"
                /\ stack[g][i].id \notin DOMAIN idmap)
        => ret[g] = Innermost(g).ctx

\* C14: the decode variants differ only in performance: on every stack
\* slowlastID, fastlastID, fasterlastID and fastestlastID return the same
\* (id, found), also with non-relay frames among the scanned frames and with
\* the matching frame the oldest captured one.  (Checked on the reference
\* build, where the pre-check of fastestlastID lets encend's frame through.)
C14_VariantsAgree ==
    \A g \in G :
        (op[g].pc = "variants" /\ build = RefBuild)
        => /\ op[g].slow = op[g].fastest
           /\ op[g].fast = op[g].fastest
           /\ op[g].faster = op[g].fastest

\* C15: the address-range pre-check of fastestlastID is a pure optimization:
\* on every stack and under every layout of encend, fastestlastID returns
\* what fasterlastID returns and does not panic.
C15_PreCheckPure ==
    \A g \in G :
        op[g].pc = "variants"
        => /\ ~op[g].fastest.panic
           /\ op[g].fastest = op[g].faster

\* the number of physical frames of st from the frame at index k up to the
\* newest
RECURSIVE FramesFrom(_, _)
FramesFrom(st, k) == IF k > Len(st) THEN 0 ELSE Count(st[k]) + FramesFrom(st, k + 1)

\* the relay frames of st between its newest encend frame and the encstart
\* frame below that
RelaysBetween(st) ==
    Cardinality({i \in (StartAt(st) + 1)..EndAt(st) : st[i].fn = "enc"})

\* C16: when the relay frames between a scope-end frame and the next older
\* scope-start frame are not exactly eight, lastID panics and does not return
\* (value, true).  (Reference build; all the frames down to encstart's are
\* captured.)
C16_BadChainPanics ==
    \A g \in G :
        (/\ op[g].pc = "decoded"
         /\ build = RefBuild
         /\ StartAt(stack[g]) > 0
         /\ FramesFrom(stack[g], StartAt(stack[g])) + 3 <= PcsLen
         /\ RelaysBetween(stack[g]) # 8)
        => (op[g].panic /\ ~op[g].ok)

\* the stack GetContext is called on holds an encend frame inside the
\* decoder's capture buffer and the encstart frame below it outside: the scan
\* that starts at encend's frame runs out of captured frames
CutOff(st) ==
    /\ EndAt(st) > 0
    /\ FramesFrom(st, EndAt(st)) + 4 <= PcsLen
    /\ FramesFrom(st, StartAt(st)) + 4 > PcsLen

\* C17: if lastID finds a scope-end frame but the captured frames end before
\* a scope-start frame, it returns (0, false), never (value, true) with the
\* bytes read so far, and GetContext returns nil.
C17_CutOffNotFound ==
    \A g \in G :
        CutOff(stack[g])
        => /\ op[g].pc # "load"
           /\ ret[g] \in {"none", "nil"}

\* GetContext has returned nil to a function that runs inside a scope, so
\* deep that the relay frames are captured and the encstart frame is not
C17_Witness ==
    /\ mode[Main] = "run"
    /\ CutOff(stack[Main])
    /\ Active(Main) # {}
    /\ Innermost(Main).ctx = "A"
    /\ FramesFrom(stack[Main], StartAt(stack[Main])) + 4 = PcsLen + 1
    /\ ret[Main] = "nil"

\* C18: frames that are neither relay nor scope-start frames are skipped
\* without a change of the accumulated value: interposing any number of them
\* anywhere between scope-end and scope-start does not change what lastID
\* returns.  (Reference build.)
C18_InterposedSkipped ==
    \A g \in G :
        (op[g].pc = "interposed" /\ build = RefBuild) => op[g].after = op[g].before

\* C19: GetContext never panics, whatever value is bound: inside the
\* continuation of WithContext(nil, f) it returns nil.
C19_NeverPanics ==
    \A g \in G :
        /\ ret[g] # "panic"
        /\ (EndedInRun(g) /\ Active(g) # {} /\ Innermost(g).ctx = "nil"
            /\ FramesAbove(stack[g]) = 1)
           => ret[g] = "nil"

\* C20: a WithContext call changes only the store entry of its own id: in
\* every step the id counter does not decrease, and an entry of idmap that
\* appears, disappears or changes is the entry of a call that stores its own
\* (id, ctx) in that step or ends in it; the entries of all other scopes
\* keep key and value.
C20_OwnEntryOnly ==
    [][/\ ~Less64(id', id)
       /\ \A k \in DOMAIN idmap \cup DOMAIN idmap' :
              \/ /\ k \in DOMAIN idmap
                 /\ k \in DOMAIN idmap'
                 /\ idmap'[k] = idmap[k]
              \/ \E g \in G : \E i \in InProgress(g) :
                     /\ stack[g][i].id = k
                     /\ \/ /\ stack[g][i].pc = "store"
                           /\ stack'[g][i].pc = "run"
                           /\ k \notin DOMAIN idmap
                           /\ idmap'[k] = stack[g][i].ctx
                        \/ /\ stack[g][i].pc # "store"
                           /\ i \notin InProgress(g)'
                           /\ k \notin DOMAIN idmap']_vars

\* the second WithContext call has stored and deleted its entry and is over,
\* while the scope of the first call is still active with its entry in place
C20_Witness ==
    /\ proc = "up"
    /\ id = U64(2)
    /\ \A g \in G : \A i \in 1..Len(stack[g]) :
           stack[g][i].fn = "WithContext" => stack[g][i].id = U64(1)
    /\ \E g \in G :
           /\ Active(g) # {}
           /\ Innermost(g).ctx = "A"
           /\ idmap = [k \in {U64(1)} |-> "A"]

\* C21: when lastID has decoded an id for which idmap has no entry, the
\* GetContext call returns nil and leaves idmap unchanged: the step in which
\* a GetContext that holds such an id ends gives its caller nil and does not
\* change idmap.
C21_MissReturnsNil ==
    [][\A g \in G :
           (/\ op[g].pc = "load"
            /\ op[g].id \notin DOMAIN idmap
            /\ op'[g] = NoOp)
           => (ret'[g] = "nil" /\ idmap' = idmap)]_vars

\* a deferred function run by a panic has called GetContext: lastID decodes
\* the id of the call that panicked, whose entry is deleted, while the entry
\* of the outer scope is in place; GetContext has returned nil
C21_Witness ==
    /\ mode[Main] = "defer"
    /\ ret[Main] = "nil"
    /\ op[Main] = NoOp
    /\ LET r == lastID(stack[Main] \o <<[fn |-> "GetContext"]>>)
       IN  /\ r.ok
           /\ r.id = U64(2)
           /\ r.id \notin DOMAIN idmap
    /\ idmap = [k \in {U64(1)} |-> "A"]

\* the bytes whose relay function, as the encoder calls it, is entered at a
RelayBytesAt(a) == {b \in Byte : EntryOf(encXX(b, <<>>)[1]) = a}

\* C22: the address index is a fixed one-to-one mapping: valForPC and encmap
\* map the entry address of the relay function the encoder calls for byte b
\* to b, for every b in 0x00..0xFF; no address belongs to two relay
\* functions; the entries of encstart and encend and every other address map
\* to no byte.
C22_AddressIndex ==
    \A g \in G :
        op[g].pc = "looked"
        => LET B == RelayBytesAt(op[g].addr)
           IN  /\ Cardinality(B) <= 1
               /\ op[g].inmap = op[g].val
               /\ \A b \in B : op[g].val = [v |-> b, ok |-> TRUE]
               /\ B = {} => op[g].val = [v |-> 0, ok |-> FALSE]
               /\ op[g].addr \in {encstartpc, encendpc} => ~op[g].val.ok

\* the entry of encff, the relay function of byte 0xff, has been looked up
\* and gave 0xff
C22_Witness ==
    /\ op[Main].pc = "looked"
    /\ op[Main].addr = EntryOf(encXX(255, <<>>)[1])
    /\ op[Main].val = [v |-> 255, ok |-> TRUE]
    /\ op[Main].inmap = [v |-> 255, ok |-> TRUE]

====
